---- MODULE Spec2Model ----
(***************************************************************************)
(* A model of src/build.py, the script that regenerates lib.rs from the    *)
(* installed trove_classifiers package.                                    *)
(*                                                                         *)
(* Text is modelled as a sequence of one-character strings, a file as the  *)
(* sequence of characters stored on disk.  lib.rs and .lib.rs are opened   *)
(* in Python's text mode (newline=None): on reading, "\r\n" and "\r" are   *)
(* translated to "\n"; on writing, "\n" is translated to os.linesep.       *)
(***************************************************************************)
EXTENDS Naturals, Sequences, FiniteSets, TLC

VARIABLES
    linesep,            \* os.linesep of the platform the script runs on
    fs_lib_rs,          \* the characters stored in the file "lib.rs"
    fs_dot_lib_rs,      \* the characters stored in the file ".lib.rs"
    installed_version,  \* version in the metadata of the installed distribution
    sorted_classifiers, \* trove_classifiers.sorted_classifiers
    trove_version,      \* the script's variable trove_version
    lib_rs,             \* the lines the iterator lib_rs has still to yield
    pc,                 \* position of the script
    error,              \* the exception that ended the run, "none" if none
    second_run,         \* TRUE once the caller has invoked the script again
    orig,               \* history: lib.rs when the current run started
    first_input,        \* history: lib.rs when the first run started
    first_out,          \* history: lib.rs when the first run finished
    opened,             \* history: the current run has opened lib.rs and .lib.rs
    classifier,         \* sanitizer harness: the classifier string
    space_at,           \* sanitizer harness: where a space is inserted
    name_plain,         \* sanitizer harness: member name of classifier
    name_spaced,        \* sanitizer harness: member name with the space inserted
    san_pc              \* sanitizer harness: position

vars == <<linesep, fs_lib_rs, fs_dot_lib_rs, installed_version, sorted_classifiers,
          trove_version, lib_rs, pc, error, second_run, orig, first_input, first_out,
          opened, classifier, space_at, name_plain, name_spaced, san_pc>>

run_vars == <<linesep, fs_lib_rs, fs_dot_lib_rs, installed_version, sorted_classifiers,
              trove_version, lib_rs, pc, error, second_run, orig, first_input, first_out,
              opened>>

san_vars == <<classifier, space_at, name_plain, name_spaced, san_pc>>

----------------------------------------------------------------------------
(* Bounds of the model. *)

MaxLines == 3
MaxClassifiers == 2
MaxStrLen == 3

----------------------------------------------------------------------------
(* String literals of the script. *)

LF == "\n"
CR == "\r"
DQ == "\""

\* "pub const PYPA_VERSION"
PYPA_VERSION_MARKER ==
    <<"p", "u", "b", " ", "c", "o", "n", "s", "t", " ",
      "P", "Y", "P", "A", "_", "V", "E", "R", "S", "I", "O", "N">>

\* 'pub const PYPA_VERSION: &str = "'
VERSION_HEAD == PYPA_VERSION_MARKER \o <<":", " ", "&", "s", "t", "r", " ", "=", " ", DQ>>

\* '";\n'
VERSION_TAIL == <<DQ, ";", LF>>

\* "pub enum Classifier {\n"
ENUM_OPEN ==
    <<"p", "u", "b", " ", "e", "n", "u", "m", " ",
      "C", "l", "a", "s", "s", "i", "f", "i", "e", "r", " ", "{", LF>>

\* "}\n"
ENUM_CLOSE == <<"}", LF>>

\* '    #[strum(serialize = "'
STRUM_HEAD ==
    <<" ", " ", " ", " ", "#", "[", "s", "t", "r", "u", "m", "(",
      "s", "e", "r", "i", "a", "l", "i", "z", "e", " ", "=", " ", DQ>>

\* '")]\n'
STRUM_TAIL == <<DQ, ")", "]", LF>>

\* "    "
MEMBER_HEAD == <<" ", " ", " ", " ">>

\* ",\n"
MEMBER_TAIL == <<",", LF>>

----------------------------------------------------------------------------
(* Python's str operations. *)

\* s.startswith(prefix)
startswith(s, prefix) ==
    /\ Len(s) >= Len(prefix)
    /\ SubSeq(s, 1, Len(prefix)) = prefix

\* s.replace(old, new) for a non-empty old: the occurrences of old are found from
\* the left, without overlap, in s itself (never in the text already produced).
RECURSIVE str_replace(_, _, _)
str_replace(s, old, new) ==
    IF Len(s) < Len(old) THEN s
    ELSE IF SubSeq(s, 1, Len(old)) = old
         THEN new \o str_replace(SubSeq(s, Len(old) + 1, Len(s)), old, new)
         ELSE <<Head(s)>> \o str_replace(Tail(s), old, new)

\* A faulty variant of member_name: the space is removed before "::" is replaced.
member_name_swapped(c) ==
    LET r1 == str_replace(c, <<" ">>, <<>>)
        r2 == str_replace(r1, <<":", ":">>, <<"_", "_">>)
        r3 == str_replace(r2, <<".">>, <<"_">>)
        r4 == str_replace(r3, <<"(">>, <<>>)
        r5 == str_replace(r4, <<")">>, <<>>)
        r6 == str_replace(r5, <<"/">>, <<>>)
        r7 == str_replace(r6, <<"-">>, <<>>)
        r8 == str_replace(r7, <<"'">>, <<>>)
        r9 == str_replace(r8, <<"#">>, <<"s", "h", "a", "r", "p">>)
    IN  str_replace(r9, <<"+">>, <<"p", "l", "u", "s">>)

\* A faulty variant of member_name: the space becomes "_" instead of going.
member_name_space_kept(c) ==
    LET r1 == str_replace(c, <<":", ":">>, <<"_", "_">>)
        r2 == str_replace(r1, <<".">>, <<"_">>)
        r3 == str_replace(r2, <<" ">>, <<"_">>)
        r4 == str_replace(r3, <<"(">>, <<>>)
        r5 == str_replace(r4, <<")">>, <<>>)
        r6 == str_replace(r5, <<"/">>, <<>>)
        r7 == str_replace(r6, <<"-">>, <<>>)
        r8 == str_replace(r7, <<"'">>, <<>>)
        r9 == str_replace(r8, <<"#">>, <<"s", "h", "a", "r", "p">>)
    IN  str_replace(r9, <<"+">>, <<"p", "l", "u", "s">>)

\* The chain of replacements that computes member_name from classifier.
member_name(c) ==
    LET r1 == str_replace(c, <<":", ":">>, <<"_", "_">>)
        r2 == str_replace(r1, <<".">>, <<"_">>)
        r3 == str_replace(r2, <<" ">>, <<>>)
        r4 == str_replace(r3, <<"(">>, <<>>)
        r5 == str_replace(r4, <<")">>, <<>>)
        r6 == str_replace(r5, <<"/">>, <<>>)
        r7 == str_replace(r6, <<"-">>, <<>>)
        r8 == str_replace(r7, <<"'">>, <<>>)
        r9 == str_replace(r8, <<"#">>, <<"s", "h", "a", "r", "p">>)
    IN  str_replace(r9, <<"+">>, <<"p", "l", "u", "s">>)

----------------------------------------------------------------------------
(* Text-mode file I/O, as open("lib.rs") and open(".lib.rs", "w") perform it. *)

\* The positions in the stored characters b at which a line ends: each "\n",
\* and each "\r" that no "\n" follows.
line_ends(b) ==
    { i \in 1..Len(b) : \/ b[i] = LF
                        \/ b[i] = CR /\ ~(i < Len(b) /\ b[i + 1] = LF) }

\* The lines a text-mode file object yields for the stored characters b: "\n",
\* "\r\n" and "\r" each end a line and are handed to the program as "\n"; a last
\* line may have no terminator.
read_lines(b) ==
    LET E == line_ends(b)
        m == Cardinality(E)
        end_of(k) == CHOOSE e \in E : Cardinality({ x \in E : x <= e }) = k
        start_of(k) == IF k = 1 THEN 1 ELSE end_of(k - 1) + 1
        body_end(k) == LET e == end_of(k)
                       IN  IF b[e] = LF /\ e > 1 /\ b[e - 1] = CR THEN e - 2 ELSE e - 1
        last_start == IF m = 0 THEN 1 ELSE end_of(m) + 1
        unterminated == IF last_start <= Len(b)
                        THEN << SubSeq(b, last_start, Len(b)) >> ELSE <<>>
    IN  [k \in 1..m |-> Append(SubSeq(b, start_of(k), body_end(k)), LF)] \o unterminated

\* The concatenation of f[lo], ..., f[hi].
RECURSIVE concat_range(_, _, _)
concat_range(f, lo, hi) ==
    IF lo > hi THEN <<>>
    ELSE IF lo = hi THEN f[lo]
    ELSE LET mid == (lo + hi) \div 2
         IN  concat_range(f, lo, mid) \o concat_range(f, mid + 1, hi)

\* The characters that _lib_rs.write(s) stores: each "\n" becomes os.linesep.
text_write(s) ==
    concat_range([i \in 1..Len(s) |-> IF s[i] = LF THEN linesep ELSE <<s[i]>>], 1, Len(s))

----------------------------------------------------------------------------
(* The pieces of the streaming loop. *)

\* f'pub const PYPA_VERSION: &str = "{trove_version}";\n'
version_line(v) == VERSION_HEAD \o v \o VERSION_TAIL

\* A faulty variant of rewrite_version: the line is never rewritten.
keep_version_line(line, v) == line

\* The line the loop goes on with after the PYPA_VERSION test.
rewrite_version(line, v) ==
    IF startswith(line, PYPA_VERSION_MARKER) THEN version_line(v) ELSE line

\* A faulty variant of first_close: the last line of the input ends the block
\* when no "}\n" does.
RECURSIVE first_close_or_end(_)
first_close_or_end(rest) ==
    IF rest = <<>> THEN 0
    ELSE IF Head(rest) = ENUM_CLOSE \/ Len(rest) = 1 THEN 1
    ELSE first_close_or_end(Tail(rest)) + 1

\* while (line := next(lib_rs)) != "}\n": pass
\* The number of lines next() consumes from rest, the "}\n" included; 0 when the
\* iterator is exhausted first, and next() raises StopIteration.
RECURSIVE first_close(_)
first_close(rest) ==
    IF rest = <<>> THEN 0
    ELSE IF Head(rest) = ENUM_CLOSE THEN 1
    ELSE LET k == first_close(Tail(rest)) IN IF k = 0 THEN 0 ELSE k + 1

\* The two writes of one classifier.
member_entry(c) ==
    STRUM_HEAD \o c \o STRUM_TAIL \o MEMBER_HEAD \o member_name(c) \o MEMBER_TAIL

RECURSIVE member_entries(_)

\* A faulty variant of member_entries: a classifier whose member name an earlier
\* one has is skipped.
member_entries_unique(cs) ==
    LET keep == { i \in 1..Len(cs) :
                    \A j \in 1..(i - 1) : member_name(cs[j]) # member_name(cs[i]) }
        F[i \in 0..Len(cs)] ==
            IF i = 0 THEN <<>>
            ELSE IF i \in keep THEN F[i - 1] \o member_entry(cs[i]) ELSE F[i - 1]
    IN  F[Len(cs)]

\* A faulty variant of member_entries: the classifiers are taken last to first.
member_entries_reversed(cs) ==
    IF cs = <<>> THEN <<>>
    ELSE member_entries(Tail(cs)) \o member_entry(Head(cs))

\* for classifier in trove_classifiers.sorted_classifiers: the text written.
member_entries(cs) ==
    IF cs = <<>> THEN <<>>
    ELSE member_entry(Head(cs)) \o member_entries(Tail(cs))

\* A faulty variant of discard_block: the old block content is left for the
\* for loop to copy.
discard_nothing(rest, k) == rest

\* What the iterator has still to yield once next() has consumed k lines of rest.
discard_block(rest, k) == SubSeq(rest, k + 1, Len(rest))

----------------------------------------------------------------------------
(* The inputs. *)

\* 'pub const PYPA_VERSION: &str = "0";'
OldVersionBody == VERSION_HEAD \o <<"0", DQ, ";">>

\* "    Old,": a member declaration of a previous generation
OldMemberBody == MEMBER_HEAD \o <<"O", "l", "d", ",">>

LineBodies ==
    { OldVersionBody,
      SubSeq(ENUM_OPEN, 1, Len(ENUM_OPEN) - 1),
      <<"}">>,
      OldMemberBody }

Terminators == { <<LF>>, <<CR, LF>> }

RECURSIVE SeqsUpTo(_, _)
SeqsUpTo(S, n) ==
    IF n = 0 THEN { <<>> }
    ELSE LET shorter == SeqsUpTo(S, n - 1)
         IN  shorter \cup { Append(q, x) : q \in { r \in shorter : Len(r) = n - 1 }, x \in S }

\* The file whose lines have the bodies ls, each ended by term, the last one
\* only if terminated.
RECURSIVE RawFile(_, _, _)
RawFile(ls, term, terminated) ==
    IF ls = <<>> THEN <<>>
    ELSE IF Len(ls) = 1
         THEN Head(ls) \o (IF terminated THEN term ELSE <<>>)
         ELSE Head(ls) \o term \o RawFile(Tail(ls), term, terminated)

InputFiles ==
    { RawFile(ls, term, terminated) :
        ls \in SeqsUpTo(LineBodies, MaxLines), term \in Terminators, terminated \in BOOLEAN }

Versions == { <<"2", ".", "1">> }

\* Classifier strings in the order sorted() gives them; the first two have the
\* same member name.
ClassifierUniverse ==
    << <<"A", " ", ":", ":", " ", "B", "-", "C">>,
       <<"A", " ", ":", ":", " ", "B", "C">>,
       <<"C", "#">> >>

\* The members of the universe with index in S, in the universe's order.
Select(S) ==
    LET F[i \in 0..Len(ClassifierUniverse)] ==
            IF i = 0 THEN <<>>
            ELSE IF i \in S THEN Append(F[i - 1], ClassifierUniverse[i]) ELSE F[i - 1]
    IN  F[Len(ClassifierUniverse)]

ClassifierLists ==
    { Select(S) : S \in { T \in SUBSET (1..Len(ClassifierUniverse)) :
                            Cardinality(T) <= MaxClassifiers } }

----------------------------------------------------------------------------
(* The run of the script. *)

SanIdle ==
    /\ classifier = <<>>
    /\ space_at = 0
    /\ name_plain = <<>>
    /\ name_spaced = <<>>
    /\ san_pc = "idle"

Init ==
    /\ linesep \in Terminators
    /\ fs_lib_rs \in InputFiles
    /\ fs_dot_lib_rs = <<>>
    /\ installed_version \in Versions
    /\ sorted_classifiers \in ClassifierLists
    /\ trove_version = <<>>
    /\ lib_rs = <<>>
    /\ pc = "start"
    /\ error = "none"
    /\ second_run = FALSE
    /\ orig = fs_lib_rs
    /\ first_input = fs_lib_rs
    /\ first_out = <<>>
    /\ opened = FALSE
    /\ SanIdle

\* import trove_classifiers
ImportTrove ==
    /\ pc = "start"
    /\ pc' = "imported"
    /\ UNCHANGED <<linesep, fs_lib_rs, fs_dot_lib_rs, installed_version, sorted_classifiers,
                   trove_version, lib_rs, error, second_run, orig, first_input, first_out,
                   opened>>
    /\ UNCHANGED san_vars

\* import trove_classifiers, the package not being installed
ImportTroveFails ==
    /\ pc = "start"
    /\ pc' = "failed"
    /\ error' = "ModuleNotFoundError"
    /\ UNCHANGED <<linesep, fs_lib_rs, fs_dot_lib_rs, installed_version, sorted_classifiers,
                   trove_version, lib_rs, second_run, orig, first_input, first_out,
                   opened>>
    /\ UNCHANGED san_vars

\* trove_version = importlib.metadata.distribution("trove_classifiers").version
LoadVersion ==
    /\ pc = "imported"
    /\ trove_version' = installed_version
    /\ pc' = "loaded"
    /\ UNCHANGED <<linesep, fs_lib_rs, fs_dot_lib_rs, installed_version, sorted_classifiers,
                   lib_rs, error, second_run, orig, first_input, first_out,
                   opened>>
    /\ UNCHANGED san_vars

\* importlib.metadata.distribution raises, the metadata not being found
LoadVersionFails ==
    /\ pc = "imported"
    /\ pc' = "failed"
    /\ error' = "PackageNotFoundError"
    /\ UNCHANGED <<linesep, fs_lib_rs, fs_dot_lib_rs, installed_version, sorted_classifiers,
                   trove_version, lib_rs, second_run, orig, first_input, first_out,
                   opened>>
    /\ UNCHANGED san_vars

\* with open("lib.rs") as lib_rs, open(".lib.rs", "w") as _lib_rs:
OpenFiles ==
    /\ pc = "loaded"
    /\ lib_rs' = read_lines(fs_lib_rs)
    /\ fs_dot_lib_rs' = <<>>
    /\ pc' = "streaming"
    /\ opened' = TRUE
    /\ UNCHANGED <<linesep, fs_lib_rs, installed_version, sorted_classifiers,
                   trove_version, error, second_run, orig, first_input, first_out>>
    /\ UNCHANGED san_vars

\* One iteration of "for line in lib_rs" that ends normally.
ForLine ==
    /\ pc = "streaming"
    /\ lib_rs # <<>>
    /\ LET line == rewrite_version(Head(lib_rs), trove_version)
           rest == Tail(lib_rs)
           k    == first_close(rest)
       IN  IF line = ENUM_OPEN
           THEN /\ k > 0
                /\ fs_dot_lib_rs' = fs_dot_lib_rs
                                      \o text_write(line)
                                      \o text_write(member_entries(sorted_classifiers))
                                      \o text_write(rest[k])
                /\ lib_rs' = discard_block(rest, k)
           ELSE /\ fs_dot_lib_rs' = fs_dot_lib_rs \o text_write(line)
                /\ lib_rs' = rest
    /\ UNCHANGED <<linesep, fs_lib_rs, installed_version, sorted_classifiers, trove_version,
                   pc, error, second_run, orig, first_input, first_out,
                   opened>>
    /\ UNCHANGED san_vars

\* The iteration in which next(lib_rs) raises StopIteration: the opening line has
\* been written, the with statement closes both files, the exception ends the run.
ForLineStopIteration ==
    /\ pc = "streaming"
    /\ lib_rs # <<>>
    /\ LET line == rewrite_version(Head(lib_rs), trove_version)
       IN  /\ line = ENUM_OPEN
           /\ first_close(Tail(lib_rs)) = 0
           /\ fs_dot_lib_rs' = fs_dot_lib_rs \o text_write(line)
    /\ lib_rs' = <<>>
    /\ pc' = "failed"
    /\ error' = "StopIteration"
    /\ UNCHANGED <<linesep, fs_lib_rs, installed_version, sorted_classifiers, trove_version,
                   second_run, orig, first_input, first_out,
                   opened>>
    /\ UNCHANGED san_vars

\* The for loop ends and the with statement closes both files.
CloseFiles ==
    /\ pc = "streaming"
    /\ lib_rs = <<>>
    /\ pc' = "staged"
    /\ UNCHANGED <<linesep, fs_lib_rs, fs_dot_lib_rs, installed_version, sorted_classifiers,
                   trove_version, lib_rs, error, second_run, orig, first_input, first_out,
                   opened>>
    /\ UNCHANGED san_vars

\* A faulty variant of copy_reached: the copy is indented into the with block.
copy_inside_with == pc \in {"streaming", "staged"}

\* Where shutil.copy(".lib.rs", "lib.rs") is reached: after the with block.
copy_reached == pc = "staged"

\* shutil.copy opens "lib.rs" for writing, which truncates it.
CopyOpen ==
    /\ copy_reached
    /\ fs_lib_rs' = <<>>
    /\ pc' = "copying"
    /\ UNCHANGED <<linesep, fs_dot_lib_rs, installed_version, sorted_classifiers,
                   trove_version, lib_rs, error, second_run, orig, first_input, first_out,
                   opened>>
    /\ UNCHANGED san_vars

\* shutil.copy writes the bytes of ".lib.rs" to "lib.rs" and returns.
CopyData ==
    /\ pc = "copying"
    /\ fs_lib_rs' = fs_dot_lib_rs
    /\ pc' = "done"
    /\ first_out' = IF second_run THEN first_out ELSE fs_dot_lib_rs
    /\ UNCHANGED <<linesep, fs_dot_lib_rs, installed_version, sorted_classifiers,
                   trove_version, lib_rs, error, second_run, orig, first_input,
                   opened>>
    /\ UNCHANGED san_vars

\* The process is interrupted (a signal, a power loss) before its next step.
Interrupt ==
    /\ pc \in {"start", "imported", "loaded", "streaming", "staged", "copying"}
    /\ pc' = "interrupted"
    /\ UNCHANGED <<linesep, fs_lib_rs, fs_dot_lib_rs, installed_version, sorted_classifiers,
                   trove_version, lib_rs, error, second_run, orig, first_input, first_out,
                   opened>>
    /\ UNCHANGED san_vars

\* The caller invokes the script again, the taxonomy being the same.
RunAgain ==
    /\ pc = "done"
    /\ ~second_run
    /\ second_run' = TRUE
    /\ pc' = "start"
    /\ trove_version' = <<>>
    /\ orig' = fs_lib_rs
    /\ opened' = FALSE
    /\ UNCHANGED <<linesep, fs_lib_rs, fs_dot_lib_rs, installed_version, sorted_classifiers,
                   lib_rs, error, first_input, first_out>>
    /\ UNCHANGED san_vars

Next ==
    \/ ImportTrove
    \/ ImportTroveFails
    \/ LoadVersion
    \/ LoadVersionFails
    \/ OpenFiles
    \/ ForLine
    \/ ForLineStopIteration
    \/ CloseFiles
    \/ CopyOpen
    \/ CopyData
    \/ Interrupt
    \/ RunAgain

Spec == Init /\ [][Next]_vars

----------------------------------------------------------------------------
(* The sanitizer on its own: member_name applied to a classifier string and to *)
(* the same string with one space inserted.                                    *)

\* The characters the replacements look for, and one they leave alone.
SanAlphabet == { ":", ".", " ", "(", ")", "/", "-", "'", "#", "+", "a" }

\* "Topic :: Software Development"
TopicSoftwareDevelopment ==
    <<"T", "o", "p", "i", "c", " ", ":", ":", " ", "S", "o", "f", "t", "w", "a", "r", "e",
      " ", "D", "e", "v", "e", "l", "o", "p", "m", "e", "n", "t">>

\* "License :: OSI Approved"
LicenseOSIApproved ==
    <<"L", "i", "c", "e", "n", "s", "e", " ", ":", ":", " ", "O", "S", "I", " ",
      "A", "p", "p", "r", "o", "v", "e", "d">>

SanInputs ==
    SeqsUpTo(SanAlphabet, MaxStrLen) \cup { TopicSoftwareDevelopment, LicenseOSIApproved }

\* c with one space inserted after its first n characters.
insert_space(c, n) == SubSeq(c, 1, n) \o <<" ">> \o SubSeq(c, n + 1, Len(c))

RunIdle ==
    /\ linesep = <<LF>>
    /\ fs_lib_rs = <<>>
    /\ fs_dot_lib_rs = <<>>
    /\ installed_version = <<>>
    /\ sorted_classifiers = <<>>
    /\ trove_version = <<>>
    /\ lib_rs = <<>>
    /\ pc = "idle"
    /\ error = "none"
    /\ second_run = FALSE
    /\ orig = <<>>
    /\ first_input = <<>>
    /\ first_out = <<>>
    /\ opened = FALSE

InitSanitize ==
    /\ RunIdle
    /\ classifier \in SanInputs
    /\ space_at \in 0..Len(classifier)
    /\ name_plain = <<>>
    /\ name_spaced = <<>>
    /\ san_pc = "ready"

\* member_name is computed for the classifier string.
SanitizePlain ==
    /\ san_pc = "ready"
    /\ name_plain' = member_name(classifier)
    /\ san_pc' = "plain"
    /\ UNCHANGED <<classifier, space_at, name_spaced>>
    /\ UNCHANGED run_vars

\* member_name is computed for the classifier string with the space inserted.
SanitizeSpaced ==
    /\ san_pc = "plain"
    /\ name_spaced' = member_name(insert_space(classifier, space_at))
    /\ san_pc' = "done"
    /\ UNCHANGED <<classifier, space_at, name_plain>>
    /\ UNCHANGED run_vars

NextSanitize ==
    \/ SanitizePlain
    \/ SanitizeSpaced

SpecSanitize == InitSanitize /\ [][NextSanitize]_vars

----------------------------------------------------------------------------
(* C9: the sanitization table. *)

\* The table of the specification, in its order.
SanitizationTable ==
    << << <<":", ":">>, <<"_", "_">> >>,
       << <<".">>, <<"_">> >>,
       << <<" ">>, <<>> >>,
       << <<"(">>, <<>> >>,
       << <<")">>, <<>> >>,
       << <<"/">>, <<>> >>,
       << <<"-">>, <<>> >>,
       << <<"'">>, <<>> >>,
       << <<"#">>, <<"s", "h", "a", "r", "p">> >>,
       << <<"+">>, <<"p", "l", "u", "s">> >> >>

\* Whether old occurs in s at position i.
OccursAt(s, old, i) ==
    /\ i + Len(old) - 1 <= Len(s)
    /\ \A j \in 1..Len(old) : s[i + j - 1] = old[j]

\* s from position i on, every occurrence of old met on the way from the left
\* replaced by new, an occurrence ending before the next one is looked for.
RECURSIVE ReplaceFrom(_, _, _, _)
ReplaceFrom(s, old, new, i) ==
    IF i > Len(s) THEN <<>>
    ELSE IF OccursAt(s, old, i) THEN new \o ReplaceFrom(s, old, new, i + Len(old))
    ELSE <<s[i]>> \o ReplaceFrom(s, old, new, i + 1)

\* The first n rows of the table applied to c one after the other.
RECURSIVE TableApplied(_, _)
TableApplied(c, n) ==
    IF n = 0 THEN c
    ELSE ReplaceFrom(TableApplied(c, n - 1), SanitizationTable[n][1], SanitizationTable[n][2], 1)

\* C9: the member name of every classifier string is the result of the table's
\* replacements applied one after the other in the table's order, each to the
\* result of the one before; "Topic :: Software Development" gives
\* Topic__SoftwareDevelopment and "License :: OSI Approved" gives
\* License__OSIApproved.
C9_SanitizationTable ==
    san_pc \in {"plain", "done"} =>
        /\ name_plain = TableApplied(classifier, Len(SanitizationTable))
        /\ classifier = TopicSoftwareDevelopment =>
              name_plain = <<"T", "o", "p", "i", "c", "_", "_", "S", "o", "f", "t", "w", "a",
                             "r", "e", "D", "e", "v", "e", "l", "o", "p", "m", "e", "n", "t">>
        /\ classifier = LicenseOSIApproved =>
              name_plain = <<"L", "i", "c", "e", "n", "s", "e", "_", "_", "O", "S", "I",
                             "A", "p", "p", "r", "o", "v", "e", "d">>

\* A string in which the order of the replacements shows (": :" keeps its colons)
\* has been sanitized.
C9_Witness ==
    /\ san_pc = "done"
    /\ classifier = <<":", " ", ":">>
    /\ name_plain = <<":", ":">>

----------------------------------------------------------------------------
(* C8: the space rule. *)

\* The number of ":" that end at position n of c, one after the other.
RECURSIVE ColonsBefore(_, _)
ColonsBefore(c, n) ==
    IF n = 0 \/ c[n] # ":" THEN 0 ELSE 1 + ColonsBefore(c, n - 1)

\* The space is inserted between the two colons of a "::" that the first
\* replacement matches in the classifier string.
SplitsPair ==
    /\ space_at < Len(classifier)
    /\ classifier[space_at + 1] = ":"
    /\ ColonsBefore(classifier, space_at) % 2 = 1

\* C8 as stated: a space inserted anywhere leaves the member name as it was.
C8_SpaceAnywhere ==
    san_pc = "done" => name_spaced = name_plain

\* C8 as amended: a space inserted anywhere but between the two colons of a "::"
\* that the first replacement matches leaves the member name as it was; a space
\* inserted there changes it.
C8_SpaceRule ==
    san_pc = "done" => (name_spaced = name_plain <=> ~SplitsPair)

\* A space has been inserted next to replaced symbols, not inside a "::".
C8_Witness ==
    /\ san_pc = "done"
    /\ classifier = <<":", ":", "#">>
    /\ space_at = 2
    /\ name_spaced = <<"_", "_", "s", "h", "a", "r", "p">>

----------------------------------------------------------------------------
(* The vocabulary of the claims about a run. *)

\* Line i of L is inside an enumeration block: after an opening marker line, with
\* no closing marker line from there up to line i itself.
Inside(L, i) ==
    \E j \in 1..(i - 1) :
        /\ L[j] = ENUM_OPEN
        /\ \A k \in (j + 1)..i : L[k] # ENUM_CLOSE

\* Line i of L is the closing marker line of an enumeration block.
ClosesBlock(L, i) ==
    /\ L[i] = ENUM_CLOSE
    /\ \E j \in 1..(i - 1) :
        /\ L[j] = ENUM_OPEN
        /\ \A k \in (j + 1)..(i - 1) : L[k] # ENUM_CLOSE

\* Line i of L is a version line outside every enumeration block.
VersionLineAt(L, i) ==
    /\ ~Inside(L, i)
    /\ Len(L[i]) >= Len(PYPA_VERSION_MARKER)
    /\ \A j \in 1..Len(PYPA_VERSION_MARKER) : L[i][j] = PYPA_VERSION_MARKER[j]

\* L has an opening marker line with no closing marker line after it.
Malformed(L) ==
    \E i \in 1..Len(L) :
        /\ L[i] = ENUM_OPEN
        /\ \A k \in (i + 1)..Len(L) : L[k] # ENUM_CLOSE

\* The lines of the stored characters b as they are stored, terminators included.
StoredLines(b) ==
    LET E == line_ends(b)
        m == Cardinality(E)
        end_of(k) == CHOOSE e \in E : Cardinality({ x \in E : x <= e }) = k
        start_of(k) == IF k = 1 THEN 1 ELSE end_of(k - 1) + 1
        last_start == IF m = 0 THEN 1 ELSE end_of(m) + 1
        unterminated == IF last_start <= Len(b)
                        THEN << SubSeq(b, last_start, Len(b)) >> ELSE <<>>
    IN  [k \in 1..m |-> SubSeq(b, start_of(k), end_of(k))] \o unterminated

\* The lines of R whose index is in keep, in their order.
Pick(R, keep) ==
    LET F[i \in 0..Len(R)] ==
            IF i = 0 THEN <<>>
            ELSE IF i \in keep THEN Append(F[i - 1], R[i]) ELSE F[i - 1]
    IN  F[Len(R)]

\* The indices of the lines of L outside the two regions, marker lines included.
OutsideRegions(L) ==
    { i \in 1..Len(L) : ~Inside(L, i) /\ ~VersionLineAt(L, i) }

\* The stored lines of b outside the two regions, as stored.
StoredOutside(b) == Pick(StoredLines(b), OutsideRegions(read_lines(b)))

\* The lines of b outside the two regions, as the program reads them.
ReadOutside(b) == Pick(read_lines(b), OutsideRegions(read_lines(b)))

\* The annotation line and the declaration line the specification gives for c.
AnnotationLine(c) == STRUM_HEAD \o c \o STRUM_TAIL

DeclarationLine(c) ==
    MEMBER_HEAD \o TableApplied(c, Len(SanitizationTable)) \o MEMBER_TAIL

\* The version line the specification gives for version v.
NewVersionLine(v) == VERSION_HEAD \o v \o <<DQ, ";", LF>>

\* The number of output lines that stand for line k of the input L.
Width(L, k) ==
    IF Inside(L, k) THEN 0
    ELSE IF ClosesBlock(L, k) THEN 2 * Len(sorted_classifiers) + 1
    ELSE 1

\* The position in the output of the first line that stands for line i of L.
RECURSIVE Position(_, _)
Position(L, i) == IF i = 1 THEN 1 ELSE Position(L, i - 1) + Width(L, i - 1)

TaxonomyErrors == { "ModuleNotFoundError", "PackageNotFoundError" }

Succeeded == pc = "done"

----------------------------------------------------------------------------
(* C1: region isolation. *)

\* C1: after a successful run, the lines of the input outside the version lines
\* and the enumeration blocks, marker lines included, are in the output
\* unchanged, byte for byte with their terminators, and in the same order, with
\* nothing else outside the two regions.
C1_RegionIsolation ==
    Succeeded => StoredOutside(fs_lib_rs) = StoredOutside(orig)

\* What the code does keep: the same lines as the program reads them, that is
\* with every line terminator read as "\n".
RegionIsolationAsRead ==
    Succeeded => ReadOutside(fs_lib_rs) = ReadOutside(orig)

----------------------------------------------------------------------------
(* C2: atomicity under failure. *)

\* C2: when the input has an opening marker line with no closing marker line
\* after it, the for loop never ends normally, the run never reaches the commit,
\* lib.rs stays as it was, and once the taxonomy is loaded the run can only end
\* with the StopIteration of the discarding loop.
C2_AtomicityUnderFailure ==
    (pc # "idle" /\ Malformed(read_lines(orig))) =>
        /\ pc \in {"start", "imported", "loaded", "streaming", "failed", "interrupted"}
        /\ pc = "streaming" => lib_rs # <<>>
        /\ fs_lib_rs = orig
        /\ (pc = "failed" /\ opened) => error = "StopIteration"

\* A run on an input with an unclosed block has failed in the discarding loop,
\* after the opening marker line was staged.
C2_Witness ==
    /\ pc = "failed"
    /\ error = "StopIteration"
    /\ Malformed(read_lines(orig))
    /\ fs_dot_lib_rs # <<>>
    /\ fs_lib_rs = orig

----------------------------------------------------------------------------
(* C3: idempotence. *)

\* C3: a second run on the output of a successful first run, with the same
\* taxonomy, does not fail on the template, and when it has finished lib.rs is
\* what the first run left.
C3_Idempotence ==
    second_run =>
        /\ error # "StopIteration"
        /\ ~Malformed(read_lines(orig))
        /\ Succeeded => fs_lib_rs = first_out

\* A second run has finished on an artifact whose block the first run rebuilt
\* and whose version line it rewrote.
C3_Witness ==
    /\ second_run
    /\ Succeeded
    /\ first_out # first_input
    /\ Len(sorted_classifiers) = 2
    /\ \E i \in 1..Len(read_lines(first_input)) :
          read_lines(first_input)[i] = ENUM_OPEN
    /\ \E i \in 1..Len(read_lines(first_input)) :
          VersionLineAt(read_lines(first_input), i)

----------------------------------------------------------------------------
(* C4: the enumeration block is rebuilt. *)

\* C4: after a successful run, every opening marker line of the output is
\* followed by exactly the annotation line and the declaration line of each
\* classifier string, in the taxonomy's order, and then by the closing marker
\* line.
C4_BlockRebuilt ==
    Succeeded =>
        LET O == read_lines(fs_lib_rs)
            n == Len(sorted_classifiers)
        IN  \A p \in 1..Len(O) :
                O[p] = ENUM_OPEN =>
                    /\ Len(O) >= p + 2 * n + 1
                    /\ \A i \in 1..n :
                        /\ O[p + 2 * i - 1] = AnnotationLine(sorted_classifiers[i])
                        /\ O[p + 2 * i] = DeclarationLine(sorted_classifiers[i])
                    /\ O[p + 2 * n + 1] = ENUM_CLOSE

\* A run has replaced a block that held an old member by two entries.
C4_Witness ==
    /\ Succeeded
    /\ ~second_run
    /\ Len(sorted_classifiers) = 2
    /\ LET L == read_lines(orig)
       IN  /\ Len(L) = 3
           /\ L[1] = ENUM_OPEN
           /\ L[2] = Append(OldMemberBody, LF)
           /\ L[3] = ENUM_CLOSE
    /\ Len(read_lines(fs_lib_rs)) = 6

----------------------------------------------------------------------------
(* C5: the version line is substituted. *)

\* C5: after a successful run, every version line of the input outside the
\* enumeration blocks has given, at its position in the output, the line
\* pub const PYPA_VERSION: &str = "<installed version>"; with its newline, and
\* every line of the output that begins with the marker is that line.
C5_VersionLine ==
    Succeeded =>
        LET L == read_lines(orig)
            O == read_lines(fs_lib_rs)
        IN  /\ \A i \in 1..Len(L) :
                VersionLineAt(L, i) =>
                    /\ Position(L, i) <= Len(O)
                    /\ O[Position(L, i)] = NewVersionLine(installed_version)
            /\ \A p \in 1..Len(O) :
                VersionLineAt(O, p) => O[p] = NewVersionLine(installed_version)

\* A run has rewritten an unterminated version line that follows a rebuilt block.
C5_Witness ==
    /\ Succeeded
    /\ ~second_run
    /\ Len(sorted_classifiers) = 2
    /\ LET L == read_lines(orig)
       IN  /\ Len(L) = 3
           /\ L[1] = ENUM_OPEN
           /\ L[2] = ENUM_CLOSE
           /\ L[3] = OldVersionBody
    /\ read_lines(fs_lib_rs)[7] = NewVersionLine(installed_version)

----------------------------------------------------------------------------
(* C6: the order of the commit. *)

\* C6: lib.rs differs from what the run found only once the commit has begun
\* (the run being then in the commit, past it, or interrupted in it);
\* it is written only by the commit step, which runs with the taxonomy loaded,
\* the input read to its end and both files closed, and not again after it; a
\* failed run has left lib.rs as it was and takes no further step; a failure to
\* load the taxonomy happens with neither file opened.
C6_CommitOrdering ==
    /\ [](fs_lib_rs # orig => pc \in {"copying", "done", "interrupted"})
    /\ [](pc = "failed" => fs_lib_rs = orig)
    /\ []((pc = "failed" /\ error \in TaxonomyErrors) => ~opened)
    /\ [][fs_lib_rs' # fs_lib_rs =>
            /\ pc \in {"staged", "copying"}
            /\ pc' \in {"copying", "done"}
            /\ opened
            /\ trove_version = installed_version
            /\ lib_rs = <<>>]_vars
    /\ [][pc = "failed" => pc' = "failed"]_vars
    /\ [][pc = "done" => fs_lib_rs' = fs_lib_rs]_vars

\* A run has committed an artifact that differs from the one it found.
C6_Witness ==
    /\ Succeeded
    /\ ~second_run
    /\ fs_lib_rs # first_input
    /\ fs_lib_rs = fs_dot_lib_rs

----------------------------------------------------------------------------
(* C7: no partial overwrite under interruption. *)

\* C7: when a run is interrupted, lib.rs holds either what it held when the run
\* started or the complete new artifact.
C7_NoPartialOverwrite ==
    pc = "interrupted" =>
        \/ fs_lib_rs = orig
        \/ lib_rs = <<>> /\ opened /\ fs_lib_rs = fs_dot_lib_rs

----------------------------------------------------------------------------
(* C10: name collisions are not detected. *)

\* C10: two distinct classifier strings with the same member name do not make
\* the run fail (a run fails only on the taxonomy or on a malformed template),
\* and after a successful run each block of the output declares that member
\* name twice, each declaration under the annotation line of its own classifier
\* string.
C10_CollisionsKept ==
    /\ pc = "failed" =>
          \/ error \in TaxonomyErrors
          \/ error = "StopIteration" /\ Malformed(read_lines(orig))
    /\ Succeeded =>
          LET O == read_lines(fs_lib_rs)
              cs == sorted_classifiers
          IN  \A p \in 1..Len(O) : \A i, j \in 1..Len(cs) :
                  (/\ O[p] = ENUM_OPEN
                   /\ i < j
                   /\ cs[i] # cs[j]
                   /\ DeclarationLine(cs[i]) = DeclarationLine(cs[j])) =>
                      /\ p + 2 * j <= Len(O)
                      /\ O[p + 2 * i] = DeclarationLine(cs[i])
                      /\ O[p + 2 * j] = O[p + 2 * i]
                      /\ O[p + 2 * i - 1] = AnnotationLine(cs[i])
                      /\ O[p + 2 * j - 1] = AnnotationLine(cs[j])
                      /\ O[p + 2 * i - 1] # O[p + 2 * j - 1]

\* A run with two classifier strings of the same member name has committed a
\* block.
C10_Witness ==
    /\ Succeeded
    /\ Len(sorted_classifiers) = 2
    /\ sorted_classifiers[1] # sorted_classifiers[2]
    /\ member_name(sorted_classifiers[1]) = member_name(sorted_classifiers[2])
    /\ \E p \in 1..Len(read_lines(fs_lib_rs)) : read_lines(fs_lib_rs)[p] = ENUM_OPEN

====
